---- MODULE Spec2Model ----
(***************************************************************************)
(* Model of ProviderOVHCloud (src/server/providers/ovhcloud/index.js): the *)
(* provider object, the asynchronous operations getModels, createInstances *)
(* and deleteInstances, and the vendor they talk to.  Every vendor request *)
(* is a suspension point: a request is issued in one step and its callback *)
(* runs in a later step.                                                   *)
(***************************************************************************)
EXTENDS Integers, Sequences, FiniteSets, TLC

VARIABLES
    instances,  \* the vendor's instance list (raw descriptors), in vendor order
    config,     \* the provider's configuration (this._config)
    self,       \* the provider's cache fields _flavorId, _snapshotId, _sshKeyId
    calls,      \* the createInstances invocations
    gm,         \* the getModels invocation
    dels,       \* the deleteInstance and deleteInstances invocations
    started     \* the startInstance invocation

vars == <<instances, config, self, calls, gm, dels, started>>

----------------------------------------------------------------------------
(* Bounds *)

MaxInstances == 2       \* descriptors in a vendor list given to getModels
MaxIPs == 2             \* IP address objects of one descriptor
MaxInitInstances == 2   \* instances the vendor holds before the first call
MaxCap == 2             \* largest configured maxRunningInstances
MaxCalls == 2           \* createInstances invocations
MaxCount == 2           \* largest count passed to createInstances
MaxDelCalls == 1        \* deleteInstances invocations
MaxDelete == 2          \* models passed to one deleteInstances

----------------------------------------------------------------------------
(* Values *)

\* JavaScript's undefined, for a string-valued field
Undefined == "undefined"
\* JavaScript's undefined, where an address object is expected
UndefinedAddress == [undefined |-> TRUE]

ST_ACTIVE == "ACTIVE"
ST_BUILD == "BUILD"
ST_DELETING == "DELETING"
ST_ERROR == "ERROR"

\* InstanceModel status constants
STARTED == "started"
STARTING == "starting"
ERROR == "error"

\* the vendor statuses a descriptor is drawn from; SUSPENDED stands for any
\* value the switch of convertStatus does not name
VendorStatuses == {ST_ACTIVE, ST_BUILD, ST_DELETING, ST_ERROR, "SUSPENDED"}

\* config.name, a string as a sequence of characters
PoolName == <<"p", "o">>
\* instancePort given to the constructor
InstancePort == 3128

\* instance names the vendor can report; <<>> is a missing (or empty) name
Names ==
    { <<>>,
      <<"p", "o">>,
      <<"p", "o", "1">>,
      <<"P", "o", "1">>,
      <<"x", "p", "o">> }

\* the i-th IP address a descriptor exposes
IPOf(i) == "10.0.0." \o ToString(i)

\* the lists of IP address objects a descriptor can carry
IPLists == { [i \in 1..n |-> [ip |-> IPOf(i), type |-> "public"]] : n \in 0..MaxIPs }

\* what the vendor reports of one instance, its id apart
RawDescriptors ==
    [status : VendorStatuses, name : Names, ipAddresses : IPLists]

\* the vendor list of the instances in list, ids in list order
DescLists(list) ==
    [i \in 1..Len(list) |->
        [id |-> i, status |-> list[i].status, name |-> list[i].name,
         ipAddresses |-> list[i].ipAddresses]]

----------------------------------------------------------------------------
(* String helpers; _.filter is SelectSeq, _.map a function over 1..Len *)

\* String.prototype.indexOf: the 0-based position of the first occurrence of
\* pat in str, -1 when there is none
IndexOf(str, pat) ==
    LET hits == { k \in 0..(Len(str) - Len(pat)) :
                    \A j \in 1..Len(pat) : str[k + j] = pat[j] }
    IN  IF hits = {} THEN -1
        ELSE CHOOSE k \in hits : \A h \in hits : k <= h

----------------------------------------------------------------------------
(* getModels pipeline *)

\* getIP taking the last address object instead of the first
getIP_last(instanceDesc) ==
    IF Len(instanceDesc.ipAddresses) <= 0 THEN Undefined
    ELSE instanceDesc.ipAddresses[Len(instanceDesc.ipAddresses)].ip

\* getIP: the ip of the first address object, undefined when there is none
getIP(instanceDesc) ==
    IF Len(instanceDesc.ipAddresses) <= 0 THEN Undefined
    ELSE instanceDesc.ipAddresses[1].ip

\* summarizeInfo: pick id, status, name and extend with ip
summarizeInfo(instancesDesc) ==
    [i \in 1..Len(instancesDesc) |->
        LET d == instancesDesc[i] IN
        [id |-> d.id, status |-> d.status, name |-> d.name, ip |-> getIP(d)]]

\* excludeTerminated testing for the wrong status
excludeTerminated_error(instancesDesc) ==
    SelectSeq(instancesDesc, LAMBDA d : d.status # ST_ERROR)

excludeTerminated(instancesDesc) ==
    SelectSeq(instancesDesc, LAMBDA d : d.status # ST_DELETING)

\* excludeOutscope accepting the pool name anywhere in the name
excludeOutscope_anywhere(instancesDesc) ==
    SelectSeq(instancesDesc,
           LAMBDA d : d.name # <<>> /\ IndexOf(d.name, PoolName) >= 0)

excludeOutscope(instancesDesc) ==
    SelectSeq(instancesDesc,
           LAMBDA d : d.name # <<>> /\ IndexOf(d.name, PoolName) = 0)

buildAddress(ip) ==
    IF ip = Undefined THEN UndefinedAddress
    ELSE [hostname |-> ip, port |-> InstancePort]

\* convertStatus whose default case answers STARTED
convertStatus_default(status) ==
    CASE status = ST_ACTIVE -> STARTED
      [] status = ST_BUILD -> STARTING
      [] status = ST_ERROR -> ERROR
      [] OTHER -> STARTED

convertStatus(status) ==
    CASE status = ST_ACTIVE -> STARTED
      [] status = ST_BUILD -> STARTING
      [] status = ST_ERROR -> ERROR
      [] OTHER -> ERROR

\* convertToModel handing over providerOpts without the ip
convertToModel_noIp(instancesDesc) ==
    [i \in 1..Len(instancesDesc) |->
        LET d == instancesDesc[i] IN
        [id |-> d.id,
         providerName |-> "ovhcloud",
         status |-> convertStatus(d.status),
         address |-> buildAddress(d.ip),
         providerOpts |-> [id |-> d.id, status |-> d.status, name |-> d.name]]]

\* convertToModel: new InstanceModel(id, name, status, address, providerOpts)
convertToModel(instancesDesc) ==
    [i \in 1..Len(instancesDesc) |->
        LET d == instancesDesc[i] IN
        [id |-> d.id,
         providerName |-> "ovhcloud",
         status |-> convertStatus(d.status),
         address |-> buildAddress(d.ip),
         providerOpts |-> d]]

\* the then-chain of getModels applied to a describe result
getModelsFn(instancesDesc) ==
    convertToModel(excludeOutscope(excludeTerminated(summarizeInfo(instancesDesc))))

----------------------------------------------------------------------------
(* Vendor catalogues and the provider's cache *)

\* the cache fields of the provider, one per resource resolved by name
Resources == {"flavorId", "snapshotId", "sshKeyId"}

\* config.flavorName, config.snapshotName, config.sshKeyName
ConfigName(r) ==
    CASE r = "flavorId" -> "vps-ssd-1"
      [] r = "snapshotId" -> "forward-proxy"
      [] r = "sshKeyId" -> "scrapoxy"

\* the lists a flavor, snapshot or sshkey list request can answer with
Catalogs(r) ==
    { <<>>,
      <<[name |-> "other", id |-> "id-other"]>>,
      <<[name |-> "other", id |-> "id-other"], [name |-> ConfigName(r), id |-> "id-1"]>>,
      <<[name |-> ConfigName(r), id |-> "id-1"], [name |-> ConfigName(r), id |-> "id-2"]>> }

\* _.findWhere(results, {name: name}): the first match, undefined without one
findWhere(results, name) ==
    LET hits == { k \in 1..Len(results) : results[k].name = name }
    IN  IF hits = {} THEN [undefined |-> TRUE]
        ELSE results[CHOOSE k \in hits : \A h \in hits : k <= h]

\* the instance the vendor adds for a creation request
NewInstance(options) ==
    [id |-> Len(instances) + 1, status |-> ST_BUILD, name |-> options.name,
     ipAddresses |-> <<>>]

\* the instances the vendor can hold before the provider's first call
InitDescriptors ==
    { [status |-> ST_ACTIVE, name |-> <<"p", "o", "1">>,
       ipAddresses |-> [j \in 1..1 |-> [ip |-> IPOf(j), type |-> "public"]]],
      [status |-> ST_DELETING, name |-> <<"p", "o", "1">>,
       ipAddresses |-> <<>>],
      [status |-> ST_ACTIVE, name |-> <<"x", "p", "o">>,
       ipAddresses |-> <<>>] }

----------------------------------------------------------------------------
(* Initial state: the provider after its constructor *)

IdleCall ==
    [pc |-> "idle", count |-> 0,
     lookups |-> [r \in Resources |-> "none"],
     posts |-> <<>>,
     result |-> "none", error |-> "none", actualCount |-> -1,
     cache |-> [r \in Resources |-> Undefined], quiet |-> TRUE]

IdleDel ==
    [pc |-> "idle", op |-> "none", models |-> <<>>, ret |-> "none",
     reqs |-> <<>>, result |-> "none"]

IdleStart == [pc |-> "idle", thrown |-> "none", ret |-> "none", result |-> "none"]

IdleGm == [pc |-> "idle", desc |-> <<>>, models |-> <<>>]

\* ProviderOVHCloud(config, instancePort)
ProviderOVHCloud ==
    /\ self = [r \in Resources |-> Undefined]
    /\ calls = [c \in 1..MaxCalls |-> IdleCall]
    /\ dels = [k \in 1..MaxDelCalls |-> IdleDel]
    /\ gm = IdleGm
    /\ started = IdleStart

Init ==
    /\ ProviderOVHCloud
    /\ config \in [name : {PoolName}, maxRunningInstances : 0..MaxCap]
    /\ \E n \in 0..MaxInitInstances : \E list \in [1..n -> InitDescriptors] :
          instances = DescLists(list)

InitModels ==
    /\ ProviderOVHCloud
    /\ config = [name |-> PoolName, maxRunningInstances |-> 0]
    /\ \E n \in 0..MaxInstances : \E list \in [1..n -> RawDescriptors] :
          instances = DescLists(list)

InitDelete ==
    /\ ProviderOVHCloud
    /\ config = [name |-> PoolName, maxRunningInstances |-> 0]
    /\ \E n \in 0..MaxInitInstances : \E list \in [1..n -> InitDescriptors] :
          instances = DescLists(list)

----------------------------------------------------------------------------
(* getModels *)

\* getModels(): issues the describe request
GetModels ==
    /\ gm.pc = "idle"
    /\ gm' = [gm EXCEPT !.pc = "describe"]
    /\ UNCHANGED <<instances, config, self, calls, dels, started>>

\* the describe request succeeds: the then-chain turns the list into models
GetModelsOk ==
    /\ gm.pc = "describe"
    /\ gm' = [pc |-> "resolved", desc |-> instances,
              models |-> getModelsFn(instances)]
    /\ UNCHANGED <<instances, config, self, calls, dels, started>>

\* the describe request fails: getModels rejects, no partial result
GetModelsErr ==
    /\ gm.pc = "describe"
    /\ gm' = [gm EXCEPT !.pc = "rejected"]
    /\ UNCHANGED <<instances, config, self, calls, dels, started>>

----------------------------------------------------------------------------
(* createInstances *)

\* the count taking only ACTIVE instances
actualCountOf_active(list) == Len(SelectSeq(list, LAMBDA d : d.status = ST_ACTIVE))

\* the instances that count against the cap
actualCountOf(list) == Len(SelectSeq(list, LAMBDA d : d.status # ST_DELETING))

\* the test of the cap with >= for >
limitReached_ge(actualCount, count) ==
    /\ config.maxRunningInstances # 0
    /\ actualCount + count >= config.maxRunningInstances

\* the test of the cap leaving count out
limitReached_noCount(actualCount, count) ==
    /\ config.maxRunningInstances # 0
    /\ actualCount > config.maxRunningInstances

\* the test of the cap in the describe callback
limitReached(actualCount, count) ==
    /\ config.maxRunningInstances # 0
    /\ actualCount + count > config.maxRunningInstances

\* the value an evaluation of 'reject(new Error(... limit reach ...))' yields
\* inside the describe callback of createInstances: no binding named reject
\* is in scope there, so the call throws a ReferenceError in strict mode
limitRejection == "ReferenceError"

\* init() starting every lookup whatever the cache holds
initLookups_always == [r \in Resources |-> "sent"]

\* init() testing _flavorId before each of the three lookups
initLookups_flavorOnly ==
    [r \in Resources |-> IF self["flavorId"] = Undefined THEN "sent" ELSE "none"]

\* init(): which lookups are started, given the cache
initLookups == [r \in Resources |-> IF self[r] = Undefined THEN "sent" ELSE "none"]

\* init() fulfilled as soon as one of its lookups is (Promise.any)
initResolved_any(call) ==
    \/ \A r \in Resources : call.lookups[r] \in {"none", "ok"}
    \/ \E r \in Resources : call.lookups[r] = "ok"

\* Promise.all over the lookups started by init() is fulfilled
initResolved(call) == \A r \in Resources : call.lookups[r] \in {"none", "ok"}

\* the options of a creation request
createOptions ==
    [flavorId |-> self["flavorId"], imageId |-> self["snapshotId"],
     name |-> config.name, sshKeyId |-> self["sshKeyId"]]

\* the batch fulfilled as soon as one creation request is (Promise.any)
allCreated_any(posts) == \E i \in 1..Len(posts) : posts[i].state = "ok"

\* Promise.all over the creation requests is fulfilled
allCreated(posts) == \A i \in 1..Len(posts) : posts[i].state = "ok"

\* no creation request of the calls before c is waiting for the vendor
noneInFlight(c) ==
    \A b \in 1..(c - 1) : \A i \in 1..Len(calls[b].posts) :
        calls[b].posts[i].state # "sent"

\* createInstances(count): issues the describe request
CreateInstances(c, count) ==
    /\ calls[c].pc = "idle"
    /\ \A b \in 1..(c - 1) : calls[b].pc # "idle"
    /\ calls' = [calls EXCEPT ![c] =
                    [@ EXCEPT !.pc = "describe", !.count = count,
                              !.result = "pending",
                              !.quiet = noneInFlight(c)]]
    /\ UNCHANGED <<instances, config, self, gm, dels, started>>

\* the describe request of createInstances fails
DescribeErr(c) ==
    /\ calls[c].pc = "describe"
    /\ calls' = [calls EXCEPT ![c] =
                    [@ EXCEPT !.pc = "done", !.result = "rejected",
                              !.error = "request error"]]
    /\ UNCHANGED <<instances, config, self, gm, dels, started>>

\* the describe callback running init() before the cap test
DescribeOk_initFirst(c) ==
    /\ calls[c].pc = "describe"
    /\ LET actualCount == actualCountOf(instances) IN
        IF limitReached(actualCount, calls[c].count)
        THEN calls' = [calls EXCEPT ![c] =
                          [@ EXCEPT !.pc = "done", !.result = "rejected",
                                    !.error = limitRejection,
                                    !.lookups = initLookups,
                                    !.actualCount = actualCount,
                                    !.cache = self]]
        ELSE calls' = [calls EXCEPT ![c] =
                          [@ EXCEPT !.pc = "init", !.lookups = initLookups,
                                    !.actualCount = actualCount,
                                    !.cache = self]]
    /\ UNCHANGED <<instances, config, self, gm, dels, started>>

\* the describe callback of createInstances: cap test, then init()
DescribeOk(c) ==
    /\ calls[c].pc = "describe"
    /\ LET actualCount == actualCountOf(instances) IN
        IF limitReached(actualCount, calls[c].count)
        THEN calls' = [calls EXCEPT ![c] =
                          [@ EXCEPT !.pc = "done", !.result = "rejected",
                                    !.error = limitRejection,
                                    !.actualCount = actualCount]]
        ELSE calls' = [calls EXCEPT ![c] =
                          [@ EXCEPT !.pc = "init", !.lookups = initLookups,
                                    !.actualCount = actualCount,
                                    !.cache = self]]
    /\ UNCHANGED <<instances, config, self, gm, dels, started>>

\* a failed lookup recorded without rejecting init()
lookupRejects_ignore(call, r, error) == [call EXCEPT !.lookups[r] = "fail"]

\* a rejected lookup rejects Promise.all of init(), once
lookupRejects(call, r, error) ==
    IF call.pc = "init"
    THEN [call EXCEPT !.lookups[r] = "fail", !.pc = "done",
                      !.result = "rejected", !.error = error]
    ELSE [call EXCEPT !.lookups[r] = "fail"]

\* the list request of resource r fails
LookupErr(c, r) ==
    /\ calls[c].lookups[r] = "sent"
    /\ calls' = [calls EXCEPT ![c] = lookupRejects(@, r, "request error")]
    /\ UNCHANGED <<instances, config, self, gm, dels, started>>

\* the list request of resource r answers: find by name, cache the id
LookupOk(c, r) ==
    /\ calls[c].lookups[r] = "sent"
    /\ \E results \in Catalogs(r) :
        LET result == findWhere(results, ConfigName(r)) IN
        IF result = [undefined |-> TRUE]
        THEN /\ calls' = [calls EXCEPT ![c] = lookupRejects(@, r, "not found")]
             /\ UNCHANGED self
        ELSE /\ calls' = [calls EXCEPT ![c].lookups[r] = "ok"]
             /\ self' = [self EXCEPT ![r] = result.id]
    /\ UNCHANGED <<instances, config, gm, dels, started>>

\* init() is fulfilled and the loop issues the first creation request only
InitDone_first(c) ==
    /\ calls[c].pc = "init"
    /\ initResolved(calls[c])
    /\ LET posts == [i \in 1..(IF calls[c].count > 1 THEN 1 ELSE calls[c].count) |->
                        [state |-> "sent", options |-> createOptions]]
       IN calls' = [calls EXCEPT ![c] =
                      IF calls[c].count = 0
                      THEN [@ EXCEPT !.pc = "done", !.result = "resolved"]
                      ELSE [@ EXCEPT !.pc = "creating", !.posts = posts]]
    /\ UNCHANGED <<instances, config, self, gm, dels, started>>

\* init() is fulfilled: the creation requests are issued, all in one loop
InitDone(c) ==
    /\ calls[c].pc = "init"
    /\ initResolved(calls[c])
    /\ LET posts == [i \in 1..calls[c].count |->
                        [state |-> "sent", options |-> createOptions]]
       IN calls' = [calls EXCEPT ![c] =
                      IF calls[c].count = 0
                      THEN [@ EXCEPT !.pc = "done", !.result = "resolved"]
                      ELSE [@ EXCEPT !.pc = "creating", !.posts = posts]]
    /\ UNCHANGED <<instances, config, self, gm, dels, started>>

\* the vendor serves a creation request: one more instance
VendorCreate(c, i) ==
    /\ i \in 1..Len(calls[c].posts)
    /\ calls[c].posts[i].state = "sent"
    /\ instances' = Append(instances, NewInstance(calls[c].posts[i].options))
    /\ calls' = [calls EXCEPT ![c].posts[i].state = "created"]
    /\ UNCHANGED <<config, self, gm, dels, started>>

\* the callback of a served creation request
CreateOk(c, i) ==
    /\ i \in 1..Len(calls[c].posts)
    /\ calls[c].posts[i].state = "created"
    /\ LET posts == [calls[c].posts EXCEPT ![i].state = "ok"] IN
       calls' = [calls EXCEPT ![c] =
                    IF @.pc = "creating" /\ allCreated(posts)
                    THEN [@ EXCEPT !.posts = posts, !.pc = "done",
                                   !.result = "resolved"]
                    ELSE [@ EXCEPT !.posts = posts]]
    /\ UNCHANGED <<instances, config, self, gm, dels, started>>

\* a creation request fails: no instance, Promise.all rejects once
CreateErr(c, i) ==
    /\ i \in 1..Len(calls[c].posts)
    /\ calls[c].posts[i].state = "sent"
    /\ calls' = [calls EXCEPT ![c] =
                    IF @.pc = "creating"
                    THEN [@ EXCEPT !.posts[i].state = "fail", !.pc = "done",
                                   !.result = "rejected",
                                   !.error = "request error"]
                    ELSE [@ EXCEPT !.posts[i].state = "fail"]]
    /\ UNCHANGED <<instances, config, self, gm, dels, started>>

----------------------------------------------------------------------------
(* deleteInstances *)

\* the lists of at most MaxDelete distinct models of ms a caller can pass
ModelSeqs(ms) ==
    UNION { { [i \in 1..n |-> ms[f[i]]] :
                f \in { g \in [1..n -> 1..Len(ms)] :
                          \A a, b \in 1..n : a # b => g[a] # g[b] } } :
            n \in 0..MaxDelete }

\* the instance id taken from the first model listed, whatever model is given
instanceIdOf_first(model) == gm.models[1].providerOpts.id

\* model.getProviderOpts().id: the instance id a DELETE is issued for
instanceIdOf(model) == model.providerOpts.id

\* _deleteInstance(instanceId): the DELETE request as issued
deleteRequest(instanceId) == [instanceId |-> instanceId, state |-> "sent"]

\* the returned promise fulfilled as soon as one DELETE is answered
allDeleted_any(reqs) == \E j \in 1..Len(reqs) : reqs[j].state = "ok"

\* the promise over the DELETE requests is fulfilled
allDeleted(reqs) == \A j \in 1..Len(reqs) : reqs[j].state = "ok"

\* deleteInstance(model): one DELETE for the model's instance id
DeleteInstance(k, model) ==
    /\ dels[k].pc = "idle"
    /\ \A b \in 1..(k - 1) : dels[b].pc # "idle"
    /\ dels' = [dels EXCEPT ![k] =
                  [@ EXCEPT !.pc = "returned", !.op = "deleteInstance",
                            !.models = <<model>>,
                            !.ret = "promise", !.result = "pending",
                            !.reqs = <<deleteRequest(instanceIdOf(model))>>]]
    /\ UNCHANGED <<instances, config, self, calls, gm, started>>

\* deleteInstances(models): nothing on an empty list, else one DELETE each
DeleteInstances(k, models) ==
    /\ dels[k].pc = "idle"
    /\ \A b \in 1..(k - 1) : dels[b].pc # "idle"
    /\ dels' = [dels EXCEPT ![k] =
                  IF Len(models) <= 0
                  THEN [@ EXCEPT !.pc = "returned", !.op = "deleteInstances",
                                 !.models = models, !.ret = "undefined"]
                  ELSE [@ EXCEPT !.pc = "returned", !.op = "deleteInstances",
                                 !.models = models,
                                 !.ret = "promise", !.result = "pending",
                                 !.reqs = [i \in 1..Len(models) |->
                                    deleteRequest(instanceIdOf(models[i]))]]]
    /\ UNCHANGED <<instances, config, self, calls, gm, started>>

\* the vendor serves a DELETE: the instance goes to DELETING
VendorDelete(k, i) ==
    /\ i \in 1..Len(dels[k].reqs)
    /\ dels[k].reqs[i].state = "sent"
    /\ dels' = [dels EXCEPT ![k].reqs[i].state = "deleted"]
    /\ instances' = [j \in 1..Len(instances) |->
                        IF instances[j].id = dels[k].reqs[i].instanceId
                        THEN [instances[j] EXCEPT !.status = ST_DELETING]
                        ELSE instances[j]]
    /\ UNCHANGED <<config, self, calls, gm, started>>

\* the callback of a served DELETE
DeleteOk(k, i) ==
    /\ i \in 1..Len(dels[k].reqs)
    /\ dels[k].reqs[i].state = "deleted"
    /\ LET reqs == [dels[k].reqs EXCEPT ![i].state = "ok"] IN
       dels' = [dels EXCEPT ![k] =
                  IF @.result = "pending" /\ allDeleted(reqs)
                  THEN [@ EXCEPT !.reqs = reqs, !.result = "resolved"]
                  ELSE [@ EXCEPT !.reqs = reqs]]
    /\ UNCHANGED <<instances, config, self, calls, gm, started>>

\* a DELETE fails: the returned promise rejects, once
DeleteErr(k, i) ==
    /\ i \in 1..Len(dels[k].reqs)
    /\ dels[k].reqs[i].state = "sent"
    /\ dels' = [dels EXCEPT ![k] =
                  IF @.result = "pending"
                  THEN [@ EXCEPT !.reqs[i].state = "fail", !.result = "rejected"]
                  ELSE [@ EXCEPT !.reqs[i].state = "fail"]]
    /\ UNCHANGED <<instances, config, self, calls, gm, started>>

----------------------------------------------------------------------------
(* startInstance *)

\* startInstance(model): throws in the caller's stack, returns nothing
StartInstance(model) ==
    /\ started.pc = "idle"
    /\ started' = [pc |-> "returned", thrown |-> "Unsupported method",
                   ret |-> "none", result |-> "none"]
    /\ UNCHANGED <<instances, config, self, calls, gm, dels>>

----------------------------------------------------------------------------
(* Specifications *)

Next ==
    \/ \E c \in 1..MaxCalls, count \in 0..MaxCount : CreateInstances(c, count)
    \/ \E c \in 1..MaxCalls : DescribeErr(c)
    \/ \E c \in 1..MaxCalls : DescribeOk(c)
    \/ \E c \in 1..MaxCalls, r \in Resources : LookupErr(c, r)
    \/ \E c \in 1..MaxCalls, r \in Resources : LookupOk(c, r)
    \/ \E c \in 1..MaxCalls : InitDone(c)
    \/ \E c \in 1..MaxCalls, i \in 1..MaxCount : VendorCreate(c, i)
    \/ \E c \in 1..MaxCalls, i \in 1..MaxCount : CreateOk(c, i)
    \/ \E c \in 1..MaxCalls, i \in 1..MaxCount : CreateErr(c, i)

Spec == Init /\ [][Next]_vars

\* a caller that starts a createInstances only when the promises of the
\* earlier ones are settled
CreateInstancesSerial(c, count) ==
    /\ \A b \in 1..(c - 1) : calls[b].result \in {"resolved", "rejected"}
    /\ CreateInstances(c, count)

NextSerial ==
    \/ \E c \in 1..MaxCalls, count \in 0..MaxCount : CreateInstancesSerial(c, count)
    \/ \E c \in 1..MaxCalls : DescribeErr(c)
    \/ \E c \in 1..MaxCalls : DescribeOk(c)
    \/ \E c \in 1..MaxCalls, r \in Resources : LookupErr(c, r)
    \/ \E c \in 1..MaxCalls, r \in Resources : LookupOk(c, r)
    \/ \E c \in 1..MaxCalls : InitDone(c)
    \/ \E c \in 1..MaxCalls, i \in 1..MaxCount : VendorCreate(c, i)
    \/ \E c \in 1..MaxCalls, i \in 1..MaxCount : CreateOk(c, i)
    \/ \E c \in 1..MaxCalls, i \in 1..MaxCount : CreateErr(c, i)

SpecSerial == Init /\ [][NextSerial]_vars

NextModels == GetModels \/ GetModelsOk \/ GetModelsErr

SpecModels == InitModels /\ [][NextModels]_vars

NextDelete ==
    \/ GetModels
    \/ GetModelsOk
    \/ GetModelsErr
    \/ \E k \in 1..MaxDelCalls, models \in ModelSeqs(gm.models) :
          DeleteInstances(k, models)
    \/ \E k \in 1..MaxDelCalls, j \in 1..Len(gm.models) :
          DeleteInstance(k, gm.models[j])
    \/ \E j \in 1..Len(gm.models) : StartInstance(gm.models[j])
    \/ \E k \in 1..MaxDelCalls, i \in 1..MaxDelete : VendorDelete(k, i)
    \/ \E k \in 1..MaxDelCalls, i \in 1..MaxDelete : DeleteOk(k, i)
    \/ \E k \in 1..MaxDelCalls, i \in 1..MaxDelete : DeleteErr(k, i)

SpecDelete == InitDelete /\ [][NextDelete]_vars

----------------------------------------------------------------------------
(* Properties of createInstances, checked under Spec *)

\* the describe request of call c succeeded and its callback ran
Listed(c) == calls[c].actualCount >= 0

\* C1: whenever a cap is configured and the non-DELETING instances listed
\* plus count exceed it, createInstances(count) rejects with the 'limit
\* reach' error and issues no creation request
C1_CapacityRejects ==
    \A c \in 1..MaxCalls :
        ( /\ Listed(c)
          /\ config.maxRunningInstances # 0
          /\ calls[c].actualCount + calls[c].count > config.maxRunningInstances )
        => ( /\ calls[c].result = "rejected"
             /\ calls[c].error = "limit reach"
             /\ calls[c].posts = <<>> )

\* the list requests issued so far for resource r
ListRequests(r) == { c \in 1..MaxCalls : calls[c].lookups[r] # "none" }

\* C6: once the id of a resource is resolved, no step issues a list request
\* for that resource any more, also after a call in which another lookup
\* failed
C6_ResolvedOnce ==
    [][ \A r \in Resources :
           self[r] # Undefined => ListRequests(r)' = ListRequests(r) ]_vars

\* a second call ran init() with flavorId cached by a first call whose
\* snapshot lookup failed: it looks the snapshot up again, the flavor not
C6_Witness ==
    /\ calls[1].result = "rejected"
    /\ calls[1].lookups["flavorId"] = "ok"
    /\ calls[1].lookups["snapshotId"] = "fail"
    /\ calls[2].pc \in {"init", "creating", "done"}
    /\ Listed(2)
    /\ calls[2].lookups["flavorId"] = "none"
    /\ calls[2].lookups["snapshotId"] # "none"

\* C7: no creation request is sent before the three ids are resolved: every
\* creation request carries a flavorId, imageId and sshKeyId that is set
C7_CreateAfterInit ==
    \A c \in 1..MaxCalls :
        /\ calls[c].posts # <<>> => \A r \in Resources : self[r] # Undefined
        /\ \A i \in 1..Len(calls[c].posts) :
              /\ calls[c].posts[i].options.flavorId # Undefined
              /\ calls[c].posts[i].options.imageId # Undefined
              /\ calls[c].posts[i].options.sshKeyId # Undefined

\* two overlapping calls both sent creation requests, the second having
\* found part of the cache filled when it ran init()
C7_Witness ==
    /\ calls[1].posts # <<>>
    /\ calls[2].posts # <<>>
    /\ \E r \in Resources : calls[2].lookups[r] = "none"
    /\ \E r \in Resources : calls[2].lookups[r] = "ok"

\* C8: createInstances(count) resolves only if each of its count creation
\* requests succeeded; when one of them has failed the call is rejected,
\* whatever became of the others
C8_AllOrReject ==
    \A c \in 1..MaxCalls :
        /\ calls[c].result = "resolved" =>
              /\ Len(calls[c].posts) = calls[c].count
              /\ \A i \in 1..Len(calls[c].posts) : calls[c].posts[i].state = "ok"
        /\ (\E i \in 1..Len(calls[c].posts) : calls[c].posts[i].state = "fail")
              => calls[c].result = "rejected"

\* a batch of two is rejected although one of its requests succeeded
C8_Witness ==
    \E c \in 1..MaxCalls :
        /\ calls[c].count = 2
        /\ Len(calls[c].posts) = 2
        /\ calls[c].result = "rejected"
        /\ calls[c].posts[1].state = "ok"
        /\ calls[c].posts[2].state = "fail"

\* every vendor call made so far by call c succeeded and found its name
VendorCallsSucceeded(c) ==
    /\ Listed(c)
    /\ \A r \in Resources : calls[c].lookups[r] # "fail"

\* C9 as stated: createInstances(0) issues no creation request and resolves,
\* whatever the vendor holds and whatever the cap, when its vendor calls
\* succeed
C9_ZeroResolves ==
    \A c \in 1..MaxCalls :
        calls[c].count = 0 =>
            /\ calls[c].posts = <<>>
            /\ (calls[c].pc = "done" /\ VendorCallsSucceeded(c))
                  => calls[c].result = "resolved"

\* C9 amended: createInstances(0) issues no creation request; it resolves when
\* its vendor calls succeed and the instances listed do not exceed the cap
C9_ZeroResolvesUnderCap ==
    \A c \in 1..MaxCalls :
        calls[c].count = 0 =>
            /\ calls[c].posts = <<>>
            /\ ( /\ calls[c].pc = "done"
                 /\ VendorCallsSucceeded(c)
                 /\ \/ config.maxRunningInstances = 0
                    \/ calls[c].actualCount <= config.maxRunningInstances )
                  => calls[c].result = "resolved"

\* createInstances(0) resolved with the vendor exactly at the cap
C9_Witness ==
    \E c \in 1..MaxCalls :
        /\ calls[c].pc = "done"
        /\ calls[c].count = 0
        /\ calls[c].result = "resolved"
        /\ config.maxRunningInstances # 0
        /\ calls[c].actualCount = config.maxRunningInstances

\* the vendor requests call c has issued: the instance list, the lookups
\* and the creation requests
Requests(c) ==
    (IF calls[c].pc = "idle" THEN 0 ELSE 1)
    + Cardinality({ r \in Resources : calls[c].lookups[r] # "none" })
    + Len(calls[c].posts)

\* C12 as stated: a createInstances rejected on the cap has made no vendor
\* call at all before the rejection, no list, lookup or creation request
C12_CapBeforeAnyCall ==
    \A c \in 1..MaxCalls :
        calls[c].error = limitRejection => Requests(c) = 0

\* C12 amended: a createInstances rejected on the cap has made exactly one
\* vendor call, the instance list the cap is tested on, and no lookup or
\* creation request
C12_CapAfterListOnly ==
    \A c \in 1..MaxCalls :
        calls[c].error = limitRejection =>
            /\ Listed(c)
            /\ Requests(c) = 1
            /\ \A r \in Resources : calls[c].lookups[r] = "none"
            /\ calls[c].posts = <<>>

\* a call is rejected on the cap while no id is cached yet
C12_Witness ==
    \E c \in 1..MaxCalls :
        /\ calls[c].error = limitRejection
        /\ calls[c].result = "rejected"
        /\ \A r \in Resources : self[r] = Undefined

\* C15: a call one of whose lookups failed, by a failed request or by a name
\* the list does not hold, is rejected and issues no creation request,
\* whatever becomes of its other lookups
C15_LookupFailureAborts ==
    \A c \in 1..MaxCalls :
        (\E r \in Resources : calls[c].lookups[r] = "fail") =>
            /\ calls[c].result = "rejected"
            /\ calls[c].posts = <<>>

\* the snapshot was not found, then the two other lookups of the call succeeded
C15_Witness ==
    \E c \in 1..MaxCalls :
        /\ calls[c].error = "not found"
        /\ calls[c].lookups["snapshotId"] = "fail"
        /\ calls[c].lookups["flavorId"] = "ok"
        /\ calls[c].lookups["sshKeyId"] = "ok"
        /\ calls[c].posts = <<>>

\* the writes of cache field r so far, one per fulfilled lookup
Writes(r) == Cardinality({ c \in 1..MaxCalls : calls[c].lookups[r] = "ok" })

\* C17 as stated: each cache field is written at most once in the provider's
\* lifetime, whatever the interleaving of the createInstances calls
C17_WrittenOnce == \A r \in Resources : Writes(r) <= 1

\* C17 amended: a cache field is written at most once by each call, and only
\* by a call whose init() found the field unset
C17_WrittenIfUnsetAtInit ==
    \A c \in 1..MaxCalls : \A r \in Resources :
        calls[c].lookups[r] = "ok" => calls[c].cache[r] = Undefined

\* two calls both wrote flavorId
C17_Witness ==
    /\ Writes("flavorId") = 2
    /\ calls[1].cache["flavorId"] = Undefined
    /\ calls[2].cache["flavorId"] = Undefined

\* the instances the vendor holds that are not DELETING
NonDeleting ==
    Cardinality({ i \in 1..Len(instances) : instances[i].status # ST_DELETING })

\* C18: the cap is tested on the instances a call listed, not on those that
\* exist when it creates: every call that passed the test had
\* actualCount + count within the cap, and two calls that listed the same
\* instances can both pass and together exceed it
C18_CapTestedOnListing ==
    \A c \in 1..MaxCalls :
        ( /\ Listed(c)
          /\ config.maxRunningInstances # 0
          /\ calls[c].error # limitRejection )
        => calls[c].actualCount + calls[c].count <= config.maxRunningInstances

\* two calls listed the same instances, both passed the cap test and both
\* resolved; the vendor now holds more instances than the cap
C18_Witness ==
    /\ config.maxRunningInstances # 0
    /\ calls[1].result = "resolved"
    /\ calls[2].result = "resolved"
    /\ calls[1].count > 0
    /\ calls[2].count > 0
    /\ calls[1].actualCount = calls[2].actualCount
    /\ NonDeleting > config.maxRunningInstances

\* the creation requests of call c the vendor has served
Created(c) ==
    Cardinality({ i \in 1..Len(calls[c].posts) :
                    calls[c].posts[i].state \in {"created", "ok"} })

\* C20: a call that passed the cap test and init() issues exactly count
\* creation requests, in one step, before any of them is answered; after that
\* no request is added, failure or not, and no DELETE is issued; a rejected
\* batch has created at most count - 1 instances
C20_BatchIssuedAtOnce ==
    /\ [](\A c \in 1..MaxCalls :
            /\ (calls[c].pc = "creating" \/ calls[c].posts # <<>>
                  \/ (calls[c].result = "resolved" /\ calls[c].count > 0))
                  => Len(calls[c].posts) = calls[c].count
            /\ (calls[c].result = "rejected" /\ calls[c].posts # <<>>)
                  => Created(c) <= calls[c].count - 1)
    /\ [][ /\ dels' = dels
           /\ \A c \in 1..MaxCalls :
                Len(calls'[c].posts) # Len(calls[c].posts) =>
                    /\ calls[c].posts = <<>>
                    /\ calls[c].pc = "init"
                    /\ Len(calls'[c].posts) = calls[c].count
                    /\ \A i \in 1..Len(calls'[c].posts) :
                          calls'[c].posts[i].state = "sent" ]_vars

\* the first request of a batch of two failed; the second was still served
C20_Witness ==
    \E c \in 1..MaxCalls :
        /\ calls[c].count = 2
        /\ Len(calls[c].posts) = 2
        /\ calls[c].result = "rejected"
        /\ calls[c].posts[1].state = "fail"
        /\ calls[c].posts[2].state = "ok"
        /\ Created(c) = 1

----------------------------------------------------------------------------
(* The cap under a serial caller, checked under SpecSerial *)

\* the instances that counted against the cap before the first call
InitialCount ==
    NonDeleting
    - Cardinality({ <<c, i>> \in (1..MaxCalls) \X (1..MaxCount) :
                      /\ i <= Len(calls[c].posts)
                      /\ calls[c].posts[i].state \in {"created", "ok"} })

\* C19 as stated: with a cap, a vendor that starts within it and calls that do
\* not overlap, the instances that are not DELETING never exceed the cap,
\* also when creation requests of a batch fail
C19_SerialCap ==
    (config.maxRunningInstances # 0 /\ InitialCount <= config.maxRunningInstances)
        => NonDeleting <= config.maxRunningInstances

\* C19 amended: the same, for calls each started when no creation request of
\* an earlier call was still waiting for the vendor
C19_QuietSerialCap ==
    ( /\ config.maxRunningInstances # 0
      /\ InitialCount <= config.maxRunningInstances
      /\ \A c \in 1..MaxCalls : calls[c].quiet )
        => NonDeleting <= config.maxRunningInstances

\* after a batch rejected by a failed request, a second call fills the cap
C19_Witness ==
    /\ config.maxRunningInstances # 0
    /\ calls[1].result = "rejected"
    /\ calls[1].posts # <<>>
    /\ Created(1) > 0
    /\ calls[2].quiet
    /\ calls[2].result = "resolved"
    /\ calls[2].count > 0
    /\ NonDeleting = config.maxRunningInstances

----------------------------------------------------------------------------
(* Properties of getModels, checked under SpecModels *)

\* the raw descriptor of gm.desc with the given id
DescOf(id) == gm.desc[CHOOSE i \in 1..Len(gm.desc) : gm.desc[i].id = id]

\* name begins with the pool name
StartsWithPool(name) ==
    /\ Len(name) >= Len(PoolName)
    /\ SubSeq(name, 1, Len(PoolName)) = PoolName

\* C2: no descriptor whose status is DELETING appears, by id, in the result
\* of getModels
C2_NoDeleting ==
    gm.pc = "resolved" =>
        \A i \in 1..Len(gm.desc) :
            gm.desc[i].status = ST_DELETING =>
                \A j \in 1..Len(gm.models) : gm.models[j].id # gm.desc[i].id

\* a DELETING descriptor of the pool was listed next to one that is returned
C2_Witness ==
    /\ gm.pc = "resolved"
    /\ Len(gm.models) = 1
    /\ \E i \in 1..Len(gm.desc) :
          /\ gm.desc[i].status = ST_DELETING
          /\ StartsWithPool(gm.desc[i].name)
          /\ gm.desc[i].ipAddresses # <<>>

\* C3: the result of getModels is, in the vendor's order, exactly the
\* descriptors that are not DELETING and whose name starts with the pool
\* name; a missing name or one that does not start with it never appears
C3_PoolOnly ==
    gm.pc = "resolved" =>
        LET expected == SelectSeq(gm.desc,
                LAMBDA d : d.status # ST_DELETING /\ StartsWithPool(d.name))
        IN  /\ Len(gm.models) = Len(expected)
            /\ \A j \in 1..Len(expected) : gm.models[j].id = expected[j].id
            /\ \A i \in 1..Len(gm.desc) :
                  ~StartsWithPool(gm.desc[i].name) =>
                      \A j \in 1..Len(gm.models) : gm.models[j].id # gm.desc[i].id

\* a running instance whose name holds the pool name past position 0 is
\* left out, the pool's instance listed after it is returned
C3_Witness ==
    /\ gm.pc = "resolved"
    /\ Len(gm.desc) = 2
    /\ gm.desc[1].status = ST_ACTIVE
    /\ gm.desc[1].name = <<"x", "p", "o">>
    /\ gm.desc[2].name = <<"p", "o", "1">>
    /\ Len(gm.models) = 1
    /\ gm.models[1].id = 2

\* C4: a model has an address iff its descriptor has at least one IP address;
\* the hostname is then the first IP and the port the instance port
C4_Address ==
    gm.pc = "resolved" =>
        \A j \in 1..Len(gm.models) :
            LET d == DescOf(gm.models[j].id) IN
            IF Len(d.ipAddresses) = 0
            THEN gm.models[j].address = UndefinedAddress
            ELSE /\ gm.models[j].address # UndefinedAddress
                 /\ gm.models[j].address.hostname = d.ipAddresses[1].ip
                 /\ gm.models[j].address.port = InstancePort

\* a model built from a descriptor with two IPs next to one built from a
\* descriptor with none
C4_Witness ==
    /\ gm.pc = "resolved"
    /\ Len(gm.models) = 2
    /\ Len(gm.desc[1].ipAddresses) = 2
    /\ Len(gm.desc[2].ipAddresses) = 0
    /\ gm.models[1].address # UndefinedAddress
    /\ gm.models[2].address = UndefinedAddress

\* the model status the translation table gives a vendor status
TableStatus(status) ==
    IF status = "ACTIVE" THEN "started"
    ELSE IF status = "BUILD" THEN "starting"
    ELSE "error"

\* C5: every model's status is STARTED, STARTING or ERROR: ACTIVE gives
\* STARTED, BUILD gives STARTING, ERROR and every other value give ERROR, and
\* a list the vendor returned is always turned into a result
C5_StatusTotal ==
    /\ gm.pc = "resolved" =>
          \A j \in 1..Len(gm.models) :
              /\ gm.models[j].status \in {STARTED, STARTING, ERROR}
              /\ gm.models[j].status = TableStatus(DescOf(gm.models[j].id).status)
    /\ gm.pc = "rejected" => gm.desc = <<>> /\ gm.models = <<>>

\* a descriptor with a status outside the table was turned into a model
C5_Witness ==
    /\ gm.pc = "resolved"
    /\ \E j \in 1..Len(gm.models) :
          /\ DescOf(gm.models[j].id).status = "SUSPENDED"
          /\ gm.models[j].status = ERROR

\* C13 as stated: the providerOpts of every model is the raw descriptor of its
\* instance, with all its fields and its full list of IP address objects
C13_RawProviderOpts ==
    gm.pc = "resolved" =>
        \A j \in 1..Len(gm.models) :
            gm.models[j].providerOpts = DescOf(gm.models[j].id)

\* C13 amended: the providerOpts of every model is the summary of its raw
\* descriptor: id, status and name unchanged, and ip, the first IP address or
\* undefined, in place of the list of IP address objects
C13_SummaryProviderOpts ==
    gm.pc = "resolved" =>
        \A j \in 1..Len(gm.models) :
            LET d == DescOf(gm.models[j].id) IN
            gm.models[j].providerOpts =
                [id |-> d.id, status |-> d.status, name |-> d.name,
                 ip |-> IF Len(d.ipAddresses) = 0 THEN Undefined
                        ELSE d.ipAddresses[1].ip]

\* a model built from a descriptor with two IP address objects keeps one ip
C13_Witness ==
    /\ gm.pc = "resolved"
    /\ \E j \in 1..Len(gm.models) :
          /\ Len(DescOf(gm.models[j].id).ipAddresses) = 2
          /\ gm.models[j].providerOpts.ip = IPOf(1)

----------------------------------------------------------------------------
(* Properties of deleteInstances, checked under SpecDelete *)

\* C10: deleteInstances on an empty list issues no vendor call and returns a
\* promise that is resolved, as it returns a promise on a non-empty list
C10_EmptyDeleteResolves ==
    \A k \in 1..MaxDelCalls :
        (dels[k].pc = "returned" /\ dels[k].models = <<>>) =>
            /\ dels[k].reqs = <<>>
            /\ dels[k].ret = "promise"
            /\ dels[k].result = "resolved"

\* C11: startInstance(model) fails, for every model, by rejecting the promise
\* it returns, the channel the other operations report their errors on, and
\* issues no vendor call
C11_StartRejects ==
    started.pc = "returned" =>
        /\ started.thrown = "none"
        /\ started.ret = "promise"
        /\ started.result = "rejected"

\* C14: deleteInstance(m), m a model returned by getModels, issues exactly one
\* DELETE; its instanceId is m's id and the id of a descriptor of the list m
\* was built from; no other instance goes to DELETING; the call rejects iff
\* that request fails
C14_ListThenDelete ==
    /\ \A k \in 1..MaxDelCalls :
          dels[k].op = "deleteInstance" =>
              /\ Len(dels[k].reqs) = 1
              /\ dels[k].reqs[1].instanceId = dels[k].models[1].id
              /\ \E i \in 1..Len(gm.desc) :
                    /\ gm.desc[i].id = dels[k].reqs[1].instanceId
                    /\ gm.desc[i].name = dels[k].models[1].providerOpts.name
                    /\ gm.desc[i].status # ST_DELETING
              /\ dels[k].result = "rejected" <=> dels[k].reqs[1].state = "fail"
              /\ dels[k].result = "resolved" <=> dels[k].reqs[1].state = "ok"
    /\ \A i \in 1..Len(gm.desc) :
          (gm.desc[i].status # ST_DELETING /\ instances[i].status = ST_DELETING)
              => \E k \in 1..MaxDelCalls, j \in 1..MaxDelete :
                    /\ j <= Len(dels[k].reqs)
                    /\ dels[k].reqs[j].instanceId = gm.desc[i].id
                    /\ dels[k].reqs[j].state \in {"deleted", "ok"}

\* the second model of a listing was deleted by deleteInstance
C14_Witness ==
    /\ gm.pc = "resolved"
    /\ Len(gm.models) = 2
    /\ \E k \in 1..MaxDelCalls :
          /\ dels[k].op = "deleteInstance"
          /\ dels[k].models = <<gm.models[2]>>
          /\ dels[k].result = "resolved"
          /\ instances[2].status = ST_DELETING
          /\ instances[1].status = ST_ACTIVE

\* C16: deleteInstances on a non-empty list issues exactly one DELETE per
\* model, for that model's instance id; it resolves only if all succeeded
\* and is rejected once one has failed; a failure adds no request
C16_DeleteAll ==
    \A k \in 1..MaxDelCalls :
        (dels[k].op = "deleteInstances" /\ dels[k].models # <<>>) =>
            /\ Len(dels[k].reqs) = Len(dels[k].models)
            /\ \A i \in 1..Len(dels[k].reqs) :
                  dels[k].reqs[i].instanceId = dels[k].models[i].providerOpts.id
            /\ dels[k].result = "resolved" =>
                  \A i \in 1..Len(dels[k].reqs) : dels[k].reqs[i].state = "ok"
            /\ (\E i \in 1..Len(dels[k].reqs) : dels[k].reqs[i].state = "fail")
                  => dels[k].result = "rejected"

\* a deleteInstances of two models is rejected, one DELETE served, one failed
C16_Witness ==
    \E k \in 1..MaxDelCalls :
        /\ dels[k].op = "deleteInstances"
        /\ Len(dels[k].reqs) = 2
        /\ dels[k].result = "rejected"
        /\ dels[k].reqs[1].state = "ok"
        /\ dels[k].reqs[2].state = "fail"

====
